---- MODULE Spec2Model ----
(* Model of src/src/tools/extract_dependencies.py: the import extractor    *)
(* (syntax-tree strategy with regex fallback), the notebook and file       *)
(* adapters, the standard-library filter, the pip-name mapper and the      *)
(* driver main().  Source text is a TLA+ string handled character by       *)
(* character (Len, SubSeq and \o on strings).                              *)
EXTENDS Integers, Sequences, FiniteSets, TLC

VARIABLES
    \* import extractor applied to one source text
    code, ex_pc, ex_imports,
    \* filter and mapper applied to one set of names
    in_names, filtered, refiltered, mapped,
    \* one adapter applied to one file
    ad_kind, ad_file, ad_pc, ad_out,
    \* the driver: the discovered files and the locals of main()
    notebooks, python_files, nb_queue, py_queue, pc, nb_i, py_j, all_imports,
    results, third_party, pip_packages, packages, exit_code, warnings

ex_vars == <<code, ex_pc, ex_imports>>
set_vars == <<in_names, filtered, refiltered, mapped>>
ad_vars == <<ad_kind, ad_file, ad_pc, ad_out>>
main_vars == <<notebooks, python_files, nb_queue, py_queue, pc, nb_i, py_j,
               all_imports, results, third_party, pip_packages, packages,
               exit_code, warnings>>
vars == <<ex_vars, set_vars, ad_vars, main_vars>>

(***************************************************************************)
(* Bounds                                                                  *)
(***************************************************************************)
\* lines of a source text given to the import extractor
MaxLines == 3
\* names in a set given to the filter and the mapper
MaxNames == 4
\* cells of a notebook, and fragments of one cell's source list
MaxCells == 2
MaxFrags == 2
\* notebooks discovered, and source files discovered besides the script itself
MaxNotebooks == 2
MaxSourceFiles == 2

\* value of a local that has not been assigned yet
Pending == {"<pending>"}
NotYet == <<"<pending>">>

(***************************************************************************)
(* Characters and strings (Python str, re)                                 *)
(***************************************************************************)
Lower == {"a","b","c","d","e","f","g","h","i","j","k","l","m",
          "n","o","p","q","r","s","t","u","v","w","x","y","z"}
Upper == {"A","B","C","D","E","F","G","H","I","J","K","L","M",
          "N","O","P","Q","R","S","T","U","V","W","X","Y","Z"}
Digits == {"0","1","2","3","4","5","6","7","8","9"}
\* \w of the re module
WordChars == Lower \cup Upper \cup Digits \cup {"_"}
\* [\w\.] of pattern1 and pattern2
WordOrDot == WordChars \cup {"."}
\* \s of the re module, and the characters str.strip() removes
Whitespace == {" ", "\t", "\n", "\r", "\f"}

Ch(s, i) == SubSeq(s, i, i)

\* largest j >= i-1 such that the characters i..j of s all lie in cls
RECURSIVE SpanEnd(_, _, _)
SpanEnd(s, i, cls) ==
    IF i <= Len(s) /\ Ch(s, i) \in cls THEN SpanEnd(s, i + 1, cls) ELSE i - 1

\* smallest j <= i+1 such that the characters j..i of s all lie in cls
RECURSIVE SpanStart(_, _, _)
SpanStart(s, i, cls) ==
    IF i >= 1 /\ Ch(s, i) \in cls THEN SpanStart(s, i - 1, cls) ELSE i + 1

StartsWith(s, i, lit) ==
    /\ i + Len(lit) - 1 <= Len(s)
    /\ SubSeq(s, i, i + Len(lit) - 1) = lit

\* first index j >= i with s[j] = c, or Len(s)+1 when there is none
RECURSIVE IndexFrom(_, _, _)
IndexFrom(s, i, c) ==
    IF i > Len(s) \/ Ch(s, i) = c THEN i ELSE IndexFrom(s, i + 1, c)

\* str.split(sep) for a one-character separator
RECURSIVE split(_, _)
split(s, sep) ==
    LET e == IndexFrom(s, 1, sep)
    IN  IF e > Len(s) THEN <<s>>
        ELSE <<SubSeq(s, 1, e - 1)>> \o split(SubSeq(s, e + 1, Len(s)), sep)

\* variant of strip: str.rstrip(), leading whitespace kept
strip_trailing_only(s) == SubSeq(s, 1, SpanStart(s, Len(s), Whitespace) - 1)

\* str.strip()
strip(s) ==
    LET a == SpanEnd(s, 1, Whitespace) + 1
        b == SpanStart(s, Len(s), Whitespace) - 1
    IN  IF a > b THEN "" ELSE SubSeq(s, a, b)

\* variant of top_module_of: name.split('.')[-1]
top_module_last(name) == split(name, ".")[Len(split(name, "."))]

\* name.split('.')[0]
top_module_of(name) == split(name, ".")[1]

(***************************************************************************)
(* Fallback strategy: extract_imports_regex                                *)
(***************************************************************************)
NoMatch == [matched |-> FALSE, group1 |-> ""]

\* re.match(r'^import\s+([\w\.]+)', line)
match_pattern1(line) ==
    IF ~StartsWith(line, 1, "import") THEN NoMatch
    ELSE LET w == SpanEnd(line, 7, Whitespace)
             g == SpanEnd(line, w + 1, WordOrDot)
         IN  IF w >= 7 /\ g >= w + 1
             THEN [matched |-> TRUE, group1 |-> SubSeq(line, w + 1, g)]
             ELSE NoMatch

\* re.match(r'^from\s+([\w\.]+)\s+import', line)
match_pattern2(line) ==
    IF ~StartsWith(line, 1, "from") THEN NoMatch
    ELSE LET w == SpanEnd(line, 5, Whitespace)
             g == SpanEnd(line, w + 1, WordOrDot)
             v == SpanEnd(line, g + 1, Whitespace)
         IN  IF w >= 5 /\ g >= w + 1 /\ v >= g + 1 /\ StartsWith(line, v + 1, "import")
             THEN [matched |-> TRUE, group1 |-> SubSeq(line, w + 1, g)]
             ELSE NoMatch

\* the body of the loop over code.split('\n'): the names one line adds
regex_line_imports(raw) ==
    LET line == strip(raw)
        match1 == match_pattern1(line)
        match2 == match_pattern2(line)
    IN  (IF match1.matched THEN {top_module_of(match1.group1)} ELSE {})
        \cup (IF match2.matched THEN {top_module_of(match2.group1)} ELSE {})

extract_imports_regex(text) ==
    LET lines == split(text, "\n")
    IN  UNION {regex_line_imports(lines[k]) : k \in 1..Len(lines)}

(***************************************************************************)
(* Primary strategy: ast.parse and ast.walk                                *)
(*                                                                         *)
(* ast.parse is modelled for the statements the inputs are built from:     *)
(* import and from-import statements (dotted names, aliases, relative      *)
(* levels), def and if headers opening an indented block, pass, and a bare *)
(* name as an expression statement; indentation follows the tokenizer's    *)
(* indent stack.  Anything else raises SyntaxError.  The tree is kept as   *)
(* the sequence of its statement nodes in source order, which is the set   *)
(* of nodes ast.walk visits.                                               *)
(***************************************************************************)
Keywords == {"False", "None", "True", "and", "as", "assert", "async", "await",
             "break", "class", "continue", "def", "del", "elif", "else",
             "except", "finally", "for", "from", "global", "if", "import",
             "in", "is", "lambda", "nonlocal", "not", "or", "pass", "raise",
             "return", "try", "while", "with", "yield"}

\* node.module of a relative import that names no module
None == "None"

IsName(t) == Len(t) > 0 /\ Ch(t, 1) \in (WordChars \ Digits) /\ t \notin Keywords

RECURSIVE Tokens(_, _)
Tokens(s, i) ==
    IF i > Len(s) THEN <<>>
    ELSE IF Ch(s, i) \in Whitespace THEN Tokens(s, i + 1)
    ELSE IF Ch(s, i) \in WordChars
         THEN LET e == SpanEnd(s, i, WordChars)
              IN  <<SubSeq(s, i, e)>> \o Tokens(s, e + 1)
         ELSE <<Ch(s, i)>> \o Tokens(s, i + 1)

\* index of the last token of the dotted name that starts at token i
RECURSIVE DottedEnd(_, _)
DottedEnd(toks, i) ==
    IF i + 2 <= Len(toks) /\ toks[i + 1] = "." /\ IsName(toks[i + 2])
    THEN DottedEnd(toks, i + 2) ELSE i

\* index of the last token of the run of '.' tokens that starts at token i
RECURSIVE DotsEnd(_, _)
DotsEnd(toks, i) ==
    IF i <= Len(toks) /\ toks[i] = "." THEN DotsEnd(toks, i + 1) ELSE i - 1

RECURSIVE JoinToks(_, _, _)
JoinToks(toks, i, j) == IF i > j THEN "" ELSE toks[i] \o JoinToks(toks, i + 1, j)

\* index of the last token of an optional 'as NAME' that follows token e
AsEnd(toks, e) ==
    IF e + 2 <= Len(toks) /\ toks[e + 1] = "as" /\ IsName(toks[e + 2])
    THEN e + 2 ELSE e

NoNames == [ok |-> FALSE, names |-> <<>>]

\* dotted_as_names of an import statement, from token i to the end
RECURSIVE ImportAliases(_, _)
ImportAliases(toks, i) ==
    IF i > Len(toks) \/ ~IsName(toks[i]) THEN NoNames
    ELSE LET e == DottedEnd(toks, i)
             a == AsEnd(toks, e)
             name == JoinToks(toks, i, e)
         IN  IF a = Len(toks) THEN [ok |-> TRUE, names |-> <<name>>]
             ELSE IF toks[a + 1] = ","
                  THEN LET rest == ImportAliases(toks, a + 2)
                       IN  [ok |-> rest.ok, names |-> <<name>> \o rest.names]
                  ELSE NoNames

\* import_as_names of a from-import statement, from token i to the end
RECURSIVE FromNames(_, _)
FromNames(toks, i) ==
    IF i > Len(toks) \/ ~IsName(toks[i]) THEN FALSE
    ELSE LET a == AsEnd(toks, i)
         IN  IF a = Len(toks) THEN TRUE
             ELSE toks[a + 1] = "," /\ FromNames(toks, a + 2)

FromTargets(toks, i) ==
    \/ SubSeq(toks, i, Len(toks)) = <<"*">>
    \/ FromNames(toks, i)
    \/ /\ i < Len(toks) /\ toks[i] = "(" /\ toks[Len(toks)] = ")"
       /\ LET q == IF toks[Len(toks) - 1] = "," THEN Len(toks) - 2 ELSE Len(toks) - 1
          IN  FromNames(SubSeq(toks, 1, q), i + 1)

Node(type, names, module, level) ==
    [type |-> type, names |-> names, module |-> module, level |-> level]

BadStmt == [ok |-> FALSE, header |-> FALSE, node |-> Node("Error", <<>>, None, 0)]
Stmt(node, header) == [ok |-> TRUE, header |-> header, node |-> node]

ParseImport(toks) ==
    LET al == ImportAliases(toks, 2)
    IN  IF al.ok THEN Stmt(Node("Import", al.names, None, 0), FALSE) ELSE BadStmt

ParseImportFrom(toks) ==
    LET d == DotsEnd(toks, 2) - 1
        m == d + 2
        named == m <= Len(toks) /\ IsName(toks[m])
        e == IF named THEN DottedEnd(toks, m) ELSE m - 1
        module == IF named THEN JoinToks(toks, m, e) ELSE None
    IN  IF /\ (named \/ d >= 1)
           /\ e + 1 <= Len(toks) /\ toks[e + 1] = "import"
           /\ FromTargets(toks, e + 2)
        THEN Stmt(Node("ImportFrom", <<>>, module, d), FALSE)
        ELSE BadStmt

\* one logical line
ParseStmt(toks) ==
    IF toks[1] = "import" THEN ParseImport(toks)
    ELSE IF toks[1] = "from" THEN ParseImportFrom(toks)
    ELSE IF Len(toks) = 5 /\ toks[1] = "def" /\ IsName(toks[2])
            /\ SubSeq(toks, 3, 5) = <<"(", ")", ":">>
         THEN Stmt(Node("FunctionDef", <<>>, None, 0), TRUE)
    ELSE IF Len(toks) = 3 /\ toks[1] = "if" /\ IsName(toks[2]) /\ toks[3] = ":"
         THEN Stmt(Node("If", <<>>, None, 0), TRUE)
    ELSE IF toks = <<"pass">> THEN Stmt(Node("Pass", <<>>, None, 0), FALSE)
    ELSE IF Len(toks) = 1 /\ IsName(toks[1]) THEN Stmt(Node("Expr", <<>>, None, 0), FALSE)
    ELSE BadStmt

SyntaxError == [ok |-> FALSE, body |-> <<>>]

\* lines k.. of the text under the indent stack; expect: a block must open
RECURSIVE ParseLines(_, _, _, _)
ParseLines(lines, k, stack, expect) ==
    IF k > Len(lines) THEN [ok |-> ~expect, body |-> <<>>]
    ELSE LET raw == lines[k]
             n == SpanEnd(raw, 1, {" "})
             toks == Tokens(raw, 1)
         IN  IF Len(toks) = 0 THEN ParseLines(lines, k + 1, stack, expect)
             ELSE LET top == stack[Len(stack)]
                      indentOk == IF expect THEN n > top
                                  ELSE \E j \in 1..Len(stack) : stack[j] = n
                      stack2 == IF expect THEN Append(stack, n)
                                ELSE SubSeq(stack, 1,
                                       CHOOSE j \in 1..Len(stack) : stack[j] = n)
                      st == ParseStmt(toks)
                  IN  IF ~indentOk \/ ~st.ok THEN SyntaxError
                      ELSE LET rest == ParseLines(lines, k + 1, stack2, st.header)
                           IN  [ok |-> rest.ok,
                                body |-> IF rest.ok THEN <<st.node>> \o rest.body
                                                    ELSE <<>>]

ast_parse(text) == ParseLines(split(text, "\n"), 1, <<0>>, FALSE)

\* the names one node visited by ast.walk adds
node_imports(node) ==
    IF node.type = "Import"
    THEN {top_module_of(node.names[j]) : j \in 1..Len(node.names)}
    ELSE IF node.type = "ImportFrom" /\ node.module \notin {None, ""}
         THEN {top_module_of(node.module)}
         ELSE {}

extract_imports_from_code(text) ==
    LET tree == ast_parse(text)
    IN  IF ~tree.ok THEN extract_imports_regex(text)
        ELSE UNION {node_imports(tree.body[k]) : k \in 1..Len(tree.body)}

(***************************************************************************)
(* Import extractor applied to bounded source texts                        *)
(***************************************************************************)
SourceLines ==
    { "import a.b.c",
      "import os, b.c as d",
      "from a.b import x",
      "from . import x",
      "from .pkg import x",
      "def f():",
      "def f(:",
      "  import requests",
      "  from .. import y",
      "x",
      "" }

RECURSIVE JoinLines(_)
JoinLines(ls) ==
    IF Len(ls) = 0 THEN ""
    ELSE IF Len(ls) = 1 THEN ls[1]
    ELSE ls[1] \o "\n" \o JoinLines(Tail(ls))

SourceTexts ==
    {JoinLines(ls) : ls \in UNION {[1..n -> SourceLines] : n \in 1..MaxLines}}

(***************************************************************************)
(* Standard-library filter and pip-name mapper                             *)
(***************************************************************************)
STDLIB_MODULES ==
    { "abc", "aifc", "argparse", "array", "ast", "asynchat",
      "asyncio", "asyncore", "atexit", "audioop", "base64", "bdb",
      "binascii", "binhex", "bisect", "builtins", "bz2", "calendar",
      "cgi", "cgitb", "chunk", "cmath", "cmd", "code", "codecs",
      "codeop", "collections", "colorsys", "compileall", "concurrent",
      "configparser", "contextlib", "contextvars", "copy", "copyreg",
      "cProfile", "crypt", "csv", "ctypes", "curses", "dataclasses",
      "datetime", "dbm", "decimal", "difflib", "dis", "distutils",
      "doctest", "email", "encodings", "enum", "errno",
      "faulthandler", "fcntl", "filecmp", "fileinput", "fnmatch",
      "fractions", "ftplib", "functools", "gc", "getopt", "getpass",
      "gettext", "glob", "graphlib", "grp", "gzip", "hashlib",
      "heapq", "hmac", "html", "http", "idlelib", "imaplib", "imghdr",
      "imp", "importlib", "inspect", "io", "ipaddress", "itertools",
      "json", "keyword", "lib2to3", "linecache", "locale", "logging",
      "lzma", "mailbox", "mailcap", "marshal", "math", "mimetypes",
      "mmap", "modulefinder", "multiprocessing", "netrc", "nis",
      "nntplib", "numbers", "operator", "optparse", "os",
      "ossaudiodev", "pathlib", "pdb", "pickle", "pickletools",
      "pipes", "pkgutil", "platform", "plistlib", "poplib", "posix",
      "posixpath", "pprint", "profile", "pstats", "pty", "pwd",
      "py_compile", "pyclbr", "pydoc", "queue", "quopri", "random",
      "re", "readline", "reprlib", "resource", "rlcompleter", "runpy",
      "sched", "secrets", "select", "selectors", "shelve", "shlex",
      "shutil", "signal", "site", "smtpd", "smtplib", "sndhdr",
      "socket", "socketserver", "spwd", "sqlite3", "ssl", "stat",
      "statistics", "string", "stringprep", "struct", "subprocess",
      "sunau", "symtable", "sys", "sysconfig", "syslog", "tabnanny",
      "tarfile", "telnetlib", "tempfile", "termios", "test",
      "textwrap", "threading", "time", "timeit", "tkinter", "token",
      "tokenize", "trace", "traceback", "tracemalloc", "tty",
      "turtle", "turtledemo", "types", "typing", "unicodedata",
      "unittest", "urllib", "uu", "uuid", "venv", "warnings", "wave",
      "weakref", "webbrowser", "winreg", "winsound", "wsgiref",
      "xdrlib", "xml", "xmlrpc", "zipapp", "zipfile", "zipimport",
      "zlib", "_thread", "typing_extensions" }

IMPORT_TO_PIP ==
    [k \in {"googleapiclient", "dotenv", "sklearn", "PIL", "cv2", "yaml", "bs4",
            "google", "youtube_transcript_api"} |->
        CASE k = "googleapiclient" -> "google-api-python-client"
          [] k = "dotenv" -> "python-dotenv"
          [] k = "sklearn" -> "scikit-learn"
          [] k = "PIL" -> "Pillow"
          [] k = "cv2" -> "opencv-python"
          [] k = "yaml" -> "PyYAML"
          [] k = "bs4" -> "beautifulsoup4"
          [] k = "google" -> "google-api-python-client"
          [] k = "youtube_transcript_api" -> "youtube-transcript-api"]

\* variant of filter_third_party: the membership test not negated
filter_stdlib_kept(imports) == {imp \in imports : imp \in STDLIB_MODULES}

filter_third_party(imports) == {imp \in imports : imp \notin STDLIB_MODULES}

\* variant of pip_name_of: IMPORT_TO_PIP.get(imp), no default
pip_name_no_default(imp) ==
    IF imp \in DOMAIN IMPORT_TO_PIP THEN IMPORT_TO_PIP[imp] ELSE "None"

\* IMPORT_TO_PIP.get(imp, imp)
pip_name_of(imp) == IF imp \in DOMAIN IMPORT_TO_PIP THEN IMPORT_TO_PIP[imp] ELSE imp

\* the loop 'for imp in imports: pip_names.add(...)', pip_names so far in acc
RECURSIVE map_loop(_, _)
map_loop(todo, acc) ==
    IF todo = {} THEN acc
    ELSE LET imp == CHOOSE n \in todo : TRUE
         IN  map_loop(todo \ {imp}, acc \cup {pip_name_of(imp)})

map_to_pip_names(imports) == map_loop(imports, {})

(***************************************************************************)
(* Files, exceptions and the two adapters                                  *)
(*                                                                         *)
(* A file is [path, status, text, doc]: path is the sequence of its parts  *)
(* below the project root; status says whether open() finds it and whether *)
(* its bytes decode as UTF-8; text is the content of a source file; doc is *)
(* the content of a notebook file as json.load sees it.                    *)
(***************************************************************************)
NoExc == "<none>"

ExcParent ==
    [e \in {"JSONDecodeError", "UnicodeDecodeError", "UnicodeError", "ValueError",
            "FileNotFoundError", "OSError", "AttributeError", "Exception"} |->
        CASE e = "JSONDecodeError" -> "ValueError"
          [] e = "UnicodeDecodeError" -> "UnicodeError"
          [] e = "UnicodeError" -> "ValueError"
          [] e = "ValueError" -> "Exception"
          [] e = "FileNotFoundError" -> "OSError"
          [] e = "OSError" -> "Exception"
          [] e = "AttributeError" -> "Exception"
          [] e = "Exception" -> "BaseException"]

RECURSIVE IsSubclass(_, _)
IsSubclass(e, c) ==
    \/ e = c
    \/ e \in DOMAIN ExcParent /\ IsSubclass(ExcParent[e], c)

\* an 'except (h1, h2)' clause catches e
Caught(e, handlers) == \E h \in handlers : IsSubclass(e, h)

NoPath == <<>>

Returned(path, imports, warned) ==
    [raised |-> NoExc, file |-> path, imports |-> imports,
     warning |-> IF warned THEN path ELSE NoPath]
Raised(e) == [raised |-> e, file |-> NoPath, imports |-> {}, warning |-> NoPath]

\* open(path, 'r', encoding='utf-8') followed by reading the whole file
read_error(file) ==
    IF file.status = "missing" THEN "FileNotFoundError"
    ELSE IF file.status = "undecodable" THEN "UnicodeDecodeError"
    ELSE NoExc

\* json.load(f)
load_error(file) ==
    IF read_error(file) # NoExc THEN read_error(file)
    ELSE IF file.doc.json = "invalid" THEN "JSONDecodeError"
    ELSE NoExc

\* ''.join(source)
RECURSIVE join(_)
join(frags) == IF Len(frags) = 0 THEN "" ELSE Head(frags) \o join(Tail(frags))

\* cell.get('source', []) normalised to one text
cell_code(source) ==
    IF source.kind = "absent" THEN join(<<>>)
    ELSE IF source.kind = "list" THEN join(source.frags)
    ELSE source.text

\* variant of cell_imports: the cell type not tested
cell_imports_any_type(cell) == extract_imports_from_code(cell_code(cell.source))

cell_imports(cell) ==
    IF cell.cell_type = "code" THEN extract_imports_from_code(cell_code(cell.source))
    ELSE {}

extract_imports_from_notebook(file) ==
    LET e == load_error(file)
    IN  IF e # NoExc
        THEN IF Caught(e, {"JSONDecodeError", "FileNotFoundError"})
             THEN Returned(file.path, {}, TRUE)
             ELSE Raised(e)
        ELSE IF file.doc.json # "object" THEN Raised("AttributeError")
        ELSE LET cells == IF file.doc.has_cells THEN file.doc.cells ELSE <<>>
             IN  Returned(file.path,
                          UNION {cell_imports(cells[k]) : k \in 1..Len(cells)},
                          FALSE)

extract_imports_from_python_file(file) ==
    LET e == read_error(file)
    IN  IF e # NoExc
        THEN IF Caught(e, {"FileNotFoundError", "UnicodeDecodeError"})
             THEN Returned(file.path, {}, TRUE)
             ELSE Raised(e)
        ELSE Returned(file.path, extract_imports_from_code(file.text), FALSE)

(***************************************************************************)
(* sorted(): str and Path ordering                                         *)
(***************************************************************************)
\* the characters of names and paths in code point order
CodePoints == "-./0123456789ABCDEFGHIJKLMNOPQRSTUVWXYZ_abcdefghijklmnopqrstuvwxyz"

Ord(c) == IndexFrom(CodePoints, 1, c)

\* a < b on str
RECURSIVE StrLess(_, _)
StrLess(a, b) ==
    IF Len(b) = 0 THEN FALSE
    ELSE IF Len(a) = 0 THEN TRUE
    ELSE IF Ch(a, 1) = Ch(b, 1) THEN StrLess(Tail(a), Tail(b))
    ELSE Ord(Ch(a, 1)) < Ord(Ch(b, 1))

\* p < q on Path: the parts compared in order
RECURSIVE PathLess(_, _)
PathLess(p, q) ==
    IF Len(q) = 0 THEN FALSE
    ELSE IF Len(p) = 0 THEN TRUE
    ELSE IF p[1] = q[1] THEN PathLess(Tail(p), Tail(q))
    ELSE StrLess(p[1], q[1])

\* sorted(S) for a set of str
RECURSIVE sorted(_)
sorted(S) ==
    IF S = {} THEN <<>>
    ELSE LET m == CHOOSE x \in S : \A y \in S \ {x} : StrLess(x, y)
         IN  <<m>> \o sorted(S \ {m})

\* sorted(files) for a set of files with distinct paths
RECURSIVE sorted_files(_)
sorted_files(F) ==
    IF F = {} THEN <<>>
    ELSE LET m == CHOOSE x \in F : \A y \in F \ {x} : PathLess(x.path, y.path)
         IN  <<m>> \o sorted_files(F \ {m})

\* Path.name
name_of(path) == path[Len(path)]

(***************************************************************************)
(* The driver main() and sys.exit(0)                                       *)
(***************************************************************************)
\* Path(__file__) below the project root
ScriptPath == <<"src", "tools", "extract_dependencies.py">>

Result(out) == [file |-> out.file, imports |-> out.imports]

\* an exception leaves main(): the interpreter prints it and exits with 1
Abort ==
    /\ pc' = "aborted"
    /\ exit_code' = 1
    /\ UNCHANGED <<nb_i, py_j, all_imports, results, warnings>>

\* variant of Collect: the aggregate assigned instead of updated
Collect_overwrite(out) ==
    /\ results' = Append(results, Result(out))
    /\ all_imports' = out.imports
    /\ warnings' = IF out.warning = NoPath THEN warnings ELSE warnings \cup {out.warning}
    /\ UNCHANGED <<pc, exit_code>>

Collect(out) ==
    /\ results' = Append(results, Result(out))
    /\ all_imports' = all_imports \cup out.imports
    /\ warnings' = IF out.warning = NoPath THEN warnings ELSE warnings \cup {out.warning}
    /\ UNCHANGED <<pc, exit_code>>

\* main() up to the evaluation of sorted(notebooks) that starts the first loop
BeginNotebooks ==
    /\ pc = "start"
    /\ nb_queue' = sorted_files(notebooks)
    /\ pc' = "notebooks"
    /\ UNCHANGED <<notebooks, python_files, py_queue, nb_i, py_j, all_imports,
                   results, third_party, pip_packages, packages, exit_code,
                   warnings>>
    /\ UNCHANGED <<ex_vars, set_vars, ad_vars>>

\* one iteration of 'for nb in sorted(notebooks)'
ScanNotebook ==
    /\ pc = "notebooks"
    /\ nb_i <= Len(nb_queue)
    /\ LET out == extract_imports_from_notebook(nb_queue[nb_i])
       IN  IF out.raised # NoExc THEN Abort
           ELSE Collect(out) /\ nb_i' = nb_i + 1 /\ UNCHANGED py_j
    /\ UNCHANGED <<notebooks, python_files, nb_queue, py_queue, third_party,
                   pip_packages, packages>>
    /\ UNCHANGED <<ex_vars, set_vars, ad_vars>>

\* the first loop ends; sorted(python_files) starts the second
BeginSources ==
    /\ pc = "notebooks"
    /\ nb_i > Len(nb_queue)
    /\ py_queue' = sorted_files(python_files)
    /\ pc' = "sources"
    /\ UNCHANGED <<notebooks, python_files, nb_queue, nb_i, py_j, all_imports,
                   results, third_party, pip_packages, packages, exit_code,
                   warnings>>
    /\ UNCHANGED <<ex_vars, set_vars, ad_vars>>

\* one iteration of 'for py_file in sorted(python_files)'
ScanSourceFile ==
    /\ pc = "sources"
    /\ py_j <= Len(py_queue)
    /\ LET py_file == py_queue[py_j]
           out == extract_imports_from_python_file(py_file)
       IN  IF name_of(py_file.path) = "extract_dependencies.py"
           THEN /\ py_j' = py_j + 1
                /\ UNCHANGED <<pc, exit_code, nb_i, all_imports, results, warnings>>
           ELSE IF out.raised # NoExc THEN Abort
           ELSE Collect(out) /\ py_j' = py_j + 1 /\ UNCHANGED nb_i
    /\ UNCHANGED <<notebooks, python_files, nb_queue, py_queue, third_party,
                   pip_packages, packages>>
    /\ UNCHANGED <<ex_vars, set_vars, ad_vars>>

\* the dependency analysis after both loops, up to 'return sorted(pip_packages)'
Analyse ==
    /\ pc = "sources"
    /\ py_j > Len(py_queue)
    /\ third_party' = filter_third_party(all_imports)
    /\ pip_packages' = map_to_pip_names(third_party')
    /\ packages' = sorted(pip_packages')
    /\ pc' = "returned"
    /\ UNCHANGED <<notebooks, python_files, nb_queue, py_queue, nb_i, py_j,
                   all_imports, results, exit_code, warnings>>
    /\ UNCHANGED <<ex_vars, set_vars, ad_vars>>

\* sys.exit(0)
Exit ==
    /\ pc = "returned"
    /\ pc' = "exited"
    /\ exit_code' = 0
    /\ UNCHANGED <<notebooks, python_files, nb_queue, py_queue, nb_i, py_j,
                   all_imports, results, third_party, pip_packages, packages,
                   warnings>>
    /\ UNCHANGED <<ex_vars, set_vars, ad_vars>>

(***************************************************************************)
(* Inputs                                                                  *)
(***************************************************************************)
MkFile(path, status, text, doc) ==
    [path |-> path, status |-> status, text |-> text, doc |-> doc]

NoDoc == [json |-> "none", has_cells |-> FALSE, cells |-> <<>>]
InvalidDoc == [json |-> "invalid", has_cells |-> FALSE, cells |-> <<>>]
ArrayDoc == [json |-> "array", has_cells |-> FALSE, cells |-> <<>>]
ObjectDoc(cells) == [json |-> "object", has_cells |-> TRUE, cells |-> cells]
ObjectNoCells == [json |-> "object", has_cells |-> FALSE, cells |-> <<>>]

AbsentSource == [kind |-> "absent", frags |-> <<>>, text |-> ""]
ListSource(frags) == [kind |-> "list", frags |-> frags, text |-> ""]
StrSource(text) == [kind |-> "str", frags |-> <<>>, text |-> text]
Cell(type, source) == [cell_type |-> type, source |-> source]

NoFile == MkFile(NoPath, "none", "", NoDoc)
NoOutcome == Raised(NoExc)

SeqsUpTo(S, n) == UNION {[1..m -> S] : m \in 0..n}

NameUniverse ==
    {"os", "sys", "typing_extensions", "numpy", "sklearn", "scikit-learn",
     "google", "googleapiclient", "PIL", "Pillow"}

Fragments == {"import a", "import b.c\n", "from . import x\n"}

Sources ==
    {AbsentSource} \cup {StrSource(t) : t \in Fragments}
        \cup {ListSource(fr) : fr \in SeqsUpTo(Fragments, MaxFrags)}

Cells == {Cell(t, src) : t \in {"code", "markdown"}, src \in Sources}

Docs ==
    {InvalidDoc, ArrayDoc, ObjectNoCells}
        \cup {ObjectDoc(cs) : cs \in SeqsUpTo(Cells, MaxCells)}

ScenarioThirdParty ==
    "import numpy as np\nfrom sklearn.model_selection import train_test_split\n"
ScenarioStdlib == "import os\nimport sys\n"
ScenarioMalformed == "def f(:\n  import requests"
ScriptText == "import ast\nimport json\nimport re\nimport sys\nfrom pathlib import Path\n"

AdapterNotebooks ==
    {MkFile(<<"notebooks", "eda.ipynb">>, "ok", "", d) : d \in Docs}
        \cup {MkFile(<<"notebooks", "eda.ipynb">>, st, "", NoDoc) :
                st \in {"missing", "undecodable"}}

AdapterSources ==
    {MkFile(<<"src", "paths.py">>, "ok", t, NoDoc) :
        t \in {ScenarioThirdParty, ScenarioStdlib, ScenarioMalformed}}
        \cup {MkFile(<<"src", "paths.py">>, st, "", NoDoc) :
                st \in {"missing", "undecodable"}}

NotebookPaths ==
    {<<"notebooks", "eda.ipynb">>, <<"notebooks", "model.ipynb">>,
     <<"notebooks", "report.ipynb">>}
SourcePaths ==
    {<<"src", "other", "extract_dependencies.py">>, <<"src", "paths.py">>,
     <<"src", "tools", "util.py">>}

Variant(status, text, doc) == [status |-> status, text |-> text, doc |-> doc]

NotebookVariants ==
    { Variant("ok", "", ObjectDoc(<<Cell("markdown", StrSource("import os")),
                                    Cell("code", ListSource(
                                        <<"import numpy as np\n",
                                          "from sklearn.model_selection import train_test_split\n">>))>>)),
      Variant("ok", "", ObjectDoc(<<Cell("markdown", StrSource("import os"))>>)),
      Variant("ok", "", ObjectDoc(<<Cell("code", StrSource(ScenarioStdlib))>>)),
      Variant("ok", "", InvalidDoc),
      Variant("undecodable", "", NoDoc),
      Variant("missing", "", NoDoc) }

SourceVariants ==
    { Variant("ok", ScenarioThirdParty, NoDoc),
      Variant("ok", ScenarioStdlib, NoDoc),
      Variant("ok", ScenarioMalformed, NoDoc),
      Variant("undecodable", "", NoDoc),
      Variant("missing", "", NoDoc) }

\* the sets of files that put a variant at each of at most n of the paths
FileSets(paths, variants, n) ==
    UNION {{{MkFile(p, f[p].status, f[p].text, f[p].doc) : p \in P} :
                f \in [P -> variants]} :
           P \in {Q \in SUBSET paths : Cardinality(Q) <= n}}

ScriptFile == MkFile(ScriptPath, "ok", ScriptText, NoDoc)

\* what notebooks_dir.glob("*.ipynb") and src_dir.rglob("*.py") can discover
DiscoveredNotebooks == FileSets(NotebookPaths, NotebookVariants, MaxNotebooks)
DiscoveredSources ==
    {others \cup {ScriptFile} :
        others \in FileSets(SourcePaths, SourceVariants, MaxSourceFiles)}

(***************************************************************************)
(* Specifications                                                          *)
(***************************************************************************)
ExtractIdle == code = "" /\ ex_pc = "idle" /\ ex_imports = {}
SetsIdle == in_names = {} /\ filtered = {} /\ refiltered = {} /\ mapped = {}
AdapterIdle == ad_kind = "none" /\ ad_file = NoFile /\ ad_pc = "idle" /\ ad_out = NoOutcome
MainIdle ==
    /\ notebooks = {} /\ python_files = {} /\ nb_queue = <<>> /\ py_queue = <<>>
    /\ pc = "idle" /\ nb_i = 1 /\ py_j = 1
    /\ all_imports = {} /\ results = <<>> /\ third_party = Pending
    /\ pip_packages = Pending /\ packages = NotYet /\ exit_code = -1
    /\ warnings = {}

\* the import extractor on one source text
ExtractInit ==
    /\ code \in SourceTexts
    /\ ex_pc = "start"
    /\ ex_imports = Pending
    /\ SetsIdle /\ AdapterIdle /\ MainIdle

ExtractFromCode ==
    /\ ex_pc = "start"
    /\ ex_imports' = extract_imports_from_code(code)
    /\ ex_pc' = "done"
    /\ UNCHANGED <<code, set_vars, ad_vars, main_vars>>

ExtractNext == ExtractFromCode

SpecExtract == ExtractInit /\ [][ExtractNext]_vars

\* the filter (once, then again on its own output) and the mapper on one set
SetsInit ==
    /\ in_names \in {S \in SUBSET NameUniverse : Cardinality(S) <= MaxNames}
    /\ filtered = Pending /\ refiltered = Pending /\ mapped = Pending
    /\ ExtractIdle /\ AdapterIdle /\ MainIdle

FilterThirdParty ==
    /\ filtered = Pending
    /\ filtered' = filter_third_party(in_names)
    /\ UNCHANGED <<in_names, refiltered, mapped, ex_vars, ad_vars, main_vars>>

FilterAgain ==
    /\ filtered # Pending /\ refiltered = Pending
    /\ refiltered' = filter_third_party(filtered)
    /\ UNCHANGED <<in_names, filtered, mapped, ex_vars, ad_vars, main_vars>>

MapToPipNames ==
    /\ mapped = Pending
    /\ mapped' = map_to_pip_names(in_names)
    /\ UNCHANGED <<in_names, filtered, refiltered, ex_vars, ad_vars, main_vars>>

SetsNext == FilterThirdParty \/ FilterAgain \/ MapToPipNames

SpecSets == SetsInit /\ [][SetsNext]_vars

\* one adapter on one file
AdapterInit ==
    /\ \/ ad_kind = "notebook" /\ ad_file \in AdapterNotebooks
       \/ ad_kind = "source" /\ ad_file \in AdapterSources
    /\ ad_pc = "start"
    /\ ad_out = NoOutcome
    /\ ExtractIdle /\ SetsIdle /\ MainIdle

RunNotebookAdapter ==
    /\ ad_pc = "start" /\ ad_kind = "notebook"
    /\ ad_out' = extract_imports_from_notebook(ad_file)
    /\ ad_pc' = "done"
    /\ UNCHANGED <<ad_kind, ad_file, ex_vars, set_vars, main_vars>>

RunFileAdapter ==
    /\ ad_pc = "start" /\ ad_kind = "source"
    /\ ad_out' = extract_imports_from_python_file(ad_file)
    /\ ad_pc' = "done"
    /\ UNCHANGED <<ad_kind, ad_file, ex_vars, set_vars, main_vars>>

AdapterNext == RunNotebookAdapter \/ RunFileAdapter

SpecAdapter == AdapterInit /\ [][AdapterNext]_vars

\* the driver on the files the two globs discover
Init ==
    /\ notebooks \in DiscoveredNotebooks
    /\ python_files \in DiscoveredSources
    /\ nb_queue = <<>> /\ py_queue = <<>>
    /\ pc = "start" /\ nb_i = 1 /\ py_j = 1
    /\ all_imports = {} /\ results = <<>>
    /\ third_party = Pending /\ pip_packages = Pending /\ packages = NotYet
    /\ exit_code = -1
    /\ warnings = {}
    /\ ExtractIdle /\ SetsIdle /\ AdapterIdle

Next ==
    BeginNotebooks \/ ScanNotebook \/ BeginSources \/ ScanSourceFile \/ Analyse \/ Exit

Spec == Init /\ [][Next]_vars

(***************************************************************************)
(* Properties                                                              *)
(***************************************************************************)
Range(f) == {f[k] : k \in DOMAIN f}

\* the text before the first '.', read off the characters
FirstSegment(p) == SubSeq(p, 1, SpanEnd(p, 1, WordChars))

HasDot(n) == \E i \in 1..Len(n) : Ch(n, i) = "."

CodeLines == split(code, "\n")

\* a line without its leading blanks
Unindented(raw) == SubSeq(raw, SpanEnd(raw, 1, {" "}) + 1, Len(raw))

IsIndented(raw) == Len(raw) > 0 /\ Ch(raw, 1) \in Whitespace

FallbackRan == ex_pc = "done" /\ ~ast_parse(code).ok

\* C1: in both adapters every recognised per-file failure (file missing,
\* bytes not decodable as text, notebook document not decodable) is recovered
\* inside the adapter: a warning names the path, the import set is empty and
\* no exception escapes.
C1_FailuresRecovered ==
    (/\ ad_pc = "done"
     /\ \/ ad_file.status \in {"missing", "undecodable"}
        \/ ad_kind = "notebook" /\ ad_file.doc.json = "invalid")
    => /\ ad_out.raised = NoExc
       /\ ad_out.imports = {}
       /\ ad_out.warning = ad_file.path

\* C2: whatever per-file failures occur, main() never aborts: every
\* discovered file other than the script itself is visited exactly once and
\* the process exits with status 0.
C2_ScanNeverAborts ==
    /\ pc # "aborted"
    /\ exit_code \in {-1, 0}
    /\ pc = "exited" =>
        \A f \in notebooks \cup python_files :
            f.path # ScriptPath =>
                Cardinality({k \in 1..Len(results) : results[k].file = f.path}) = 1

\* C3 (as stated): when the primary parse fails, only lines whose import
\* statement is not indented contribute; "def f(:\n  import requests" yields
\* the empty set.
C3_IndentedLinesIgnored ==
    FallbackRan =>
        /\ ex_imports = UNION {IF IsIndented(CodeLines[k]) THEN {}
                               ELSE regex_line_imports(CodeLines[k]) :
                               k \in 1..Len(CodeLines)}
        /\ code = ScenarioMalformed => ex_imports = {}

\* C3 (amended): when the primary parse fails, every line is matched after
\* its surrounding whitespace is trimmed, so an indented import line
\* contributes exactly what the same line contributes without its
\* indentation; "def f(:\n  import requests" yields {"requests"}.
C3_IndentedLinesMatched ==
    FallbackRan =>
        /\ ex_imports = UNION {regex_line_imports(Unindented(CodeLines[k])) :
                               k \in 1..Len(CodeLines)}
        /\ code = ScenarioMalformed => ex_imports = {"requests"}

C3_Witness ==
    /\ FallbackRan
    /\ code = ScenarioMalformed
    /\ ex_imports = {"requests"}

\* the dotted paths a parsed text imports: every target of a plain import and
\* the module path of every from-import that names one
ImportTargets(body) ==
    UNION {IF body[k].type = "Import" THEN Range(body[k].names)
           ELSE IF body[k].type = "ImportFrom" /\ body[k].module # None
                THEN {body[k].module}
                ELSE {} : k \in 1..Len(body)}

\* C4: for text that parses, the result is exactly the set of first
\* dot-separated segments of the imported dotted paths; it holds no dotted
\* name (import a.b.c yields {a}) and a relative from-import that names no
\* module contributes nothing.
C4_FirstSegmentsOnly ==
    (ex_pc = "done" /\ ast_parse(code).ok) =>
        /\ ex_imports = {FirstSegment(t) : t \in ImportTargets(ast_parse(code).body)}
        /\ \A n \in ex_imports : ~HasDot(n)
        /\ code = "import a.b.c" => ex_imports = {"a"}
        /\ code = "from . import x" => ex_imports = {}
        /\ code = "from a.b import x\nfrom .pkg import x" => ex_imports = {"a", "pkg"}

C4_Witness ==
    /\ ex_pc = "done"
    /\ code = "import a.b.c\nfrom . import x\nimport os, b.c as d"
    /\ ast_parse(code).ok
    /\ ex_imports = {"a", "os", "b"}

\* C5: filter_third_party returns exactly the names of S that are not in the
\* standard-library set, a subset of S, and applying it to its own output
\* changes nothing.
C5_FilterIdempotentShrinking ==
    /\ filtered # Pending =>
        /\ filtered \subseteq in_names
        /\ filtered = in_names \ STDLIB_MODULES
    /\ refiltered # Pending => refiltered = filtered

C5_Witness ==
    /\ in_names = {"os", "numpy", "typing_extensions", "sklearn"}
    /\ filtered = {"numpy", "sklearn"}
    /\ refiltered = filtered

\* the names of S that share their output name with another name of S
Colliding(S) ==
    {n \in S : \E m \in S \ {n} : pip_name_of(m) = pip_name_of(n)}

\* C6: map_to_pip_names(S) is the image of S under the table with identity on
\* a miss; every output is a name of S or a table value; the output is no
\* larger than S and is smaller only by the names that collide on one output.
C6_MapIsImage ==
    mapped # Pending =>
        /\ mapped = {IF n \in DOMAIN IMPORT_TO_PIP THEN IMPORT_TO_PIP[n] ELSE n :
                     n \in in_names}
        /\ mapped \subseteq in_names \cup Range(IMPORT_TO_PIP)
        /\ Cardinality(mapped) <= Cardinality(in_names)
        /\ Cardinality(in_names) - Cardinality(mapped)
             = Cardinality(Colliding(in_names))
                 - Cardinality({pip_name_of(n) : n \in Colliding(in_names)})

C6_Witness ==
    /\ in_names = {"google", "googleapiclient", "numpy", "PIL"}
    /\ mapped = {"google-api-python-client", "numpy", "Pillow"}

\* the fragments in order with nothing between them
RECURSIVE ConcatUpTo(_, _)
ConcatUpTo(frags, n) == IF n = 0 THEN "" ELSE ConcatUpTo(frags, n - 1) \o frags[n]

SourceText(source) ==
    IF source.kind = "str" THEN source.text
    ELSE ConcatUpTo(source.frags, Len(source.frags))

CodeCells(cells) == {k \in 1..Len(cells) : cells[k].cell_type = "code"}

NotebookDecoded ==
    /\ ad_pc = "done" /\ ad_kind = "notebook"
    /\ ad_file.status = "ok" /\ ad_file.doc.json = "object"

\* C7: for a decoded notebook the adapter returns the union of the
\* extractor's results over exactly the code cells, a fragment list being
\* concatenated in order with no separator and a string used as it is; other
\* cells contribute nothing, so no code cell means the empty set.
C7_UnionOverCodeCells ==
    NotebookDecoded =>
        LET cells == ad_file.doc.cells
        IN  /\ ad_out.raised = NoExc
            /\ ad_out.file = ad_file.path
            /\ ad_out.imports =
                 UNION {extract_imports_from_code(SourceText(cells[k].source)) :
                        k \in CodeCells(cells)}
            /\ CodeCells(cells) = {} => ad_out.imports = {}
            /\ cells = <<Cell("code", ListSource(<<"import a", "import b.c\n">>))>>
                 => ad_out.imports = {"aimport"}

C7_Witness ==
    /\ NotebookDecoded
    /\ ad_file.doc.cells = <<Cell("markdown", StrSource("import a")),
                             Cell("code", ListSource(<<"import b.c\n", "import a">>))>>
    /\ ad_out.imports = {"a", "b"}

\* C8: a discovered source file is skipped if and only if it is the script
\* itself; every other one is passed to the file adapter and collected.
C8_SkipsOnlyOwnFile ==
    \A k \in 1..Len(py_queue) :
        k < py_j =>
            (py_queue[k].path # ScriptPath
                <=> \E r \in 1..Len(results) : results[r].file = py_queue[k].path)

\* a result is the adapter's result for a file already iterated over:
\* the first nb_i - 1 results are the first notebooks in sorted order, the
\* later ones are source files
ResultOfProcessedFile(k) ==
    IF k < nb_i
    THEN /\ results[k].file = nb_queue[k].path
         /\ results[k].imports = extract_imports_from_notebook(nb_queue[k]).imports
    ELSE /\ nb_i > Len(nb_queue)
         /\ \E j \in 1..Len(py_queue) :
               /\ j < py_j
               /\ results[k].file = py_queue[j].path
               /\ results[k].imports
                    = extract_imports_from_python_file(py_queue[j]).imports

C9_StateInv ==
    /\ all_imports = UNION {results[k].imports : k \in 1..Len(results)}
    /\ \A k \in 1..Len(results) : ResultOfProcessedFile(k)
    /\ pc \in {"start", "notebooks", "sources", "aborted"} =>
          third_party = Pending /\ pip_packages = Pending /\ packages = NotYet
    /\ pc \in {"returned", "exited"} =>
          /\ nb_i = Cardinality(notebooks) + 1
          /\ py_j = Cardinality(python_files) + 1
          /\ third_party = all_imports \ STDLIB_MODULES
          /\ Range(packages) =
               {IF n \in DOMAIN IMPORT_TO_PIP THEN IMPORT_TO_PIP[n] ELSE n :
                n \in all_imports \ STDLIB_MODULES}
          /\ \A k \in 1..(Len(packages) - 1) : StrLess(packages[k], packages[k + 1])
          /\ all_imports = {"numpy", "sklearn"} => packages = <<"numpy", "scikit-learn">>
          /\ all_imports = {"os", "sys"} => packages = <<>>

\* C9: during a scan the aggregate only grows and always equals the union of
\* the import sets of the files processed so far (notebooks first, then
\* source files); filter and mapper run only after the last file, and the
\* reported list is the sorted, duplicate-free
\* map_to_pip_names(filter_third_party(aggregate)).
C9_AggregateThenReport ==
    /\ []C9_StateInv
    /\ [][all_imports \subseteq all_imports']_vars

C9_Witness ==
    /\ pc = "exited"
    /\ Len(results) >= 3
    /\ all_imports = {"numpy", "sklearn"}
    /\ packages = <<"numpy", "scikit-learn">>

\* C10: whichever strategy handled the text, every extracted name is a
\* non-empty module name without a dot; a relative import line in text that
\* falls back to the regex strategy never adds the empty string.
C10_NamesNonEmptyUndotted ==
    ex_pc = "done" => \A n \in ex_imports : Len(n) > 0 /\ ~HasDot(n)

====
